---- MODULE Spec2Model ----
(***************************************************************************)
(* TestGuardian2: the lockdown quiz session.                               *)
(*                                                                         *)
(*   - the React component QuizAttempt (frontend/src/pages/QuizAttempt.tsx):*)
(*     warning escalation, countdown, submission, post-submission release; *)
(*   - the Electron main process (unnamed/part_007): the quiz window and   *)
(*     its event handlers and IPC handlers;                                *)
(*   - the scoring route POST /api/quiz/:id/attempt (quizRoutes.js).       *)
(*                                                                         *)
(* React semantics that the model keeps:                                   *)
(*   st  the state of the last committed render.  Every callback          *)
(*       (handleWarningTrigger, handleSubmitQuiz, the interval callback,   *)
(*       submitQuizRef.current) is a closure over the values of the render *)
(*       that created it, so a callback reads st, never nx.                *)
(*   nx  the state after the updates queued since that render.  A          *)
(*       functional updater (setWarningCount(prev => ..)) receives the     *)
(*       queued value, so it reads nx.                                     *)
(*   Render commits nx and runs the effects of the commit in one step.     *)
(* Time is counted in seconds.  A timer holds the seconds it has left;     *)
(* Tick lets one second pass and is taken only when no render is pending   *)
(* and no timer is due, so renders and due timers are urgent while user    *)
(* events, host events and network replies may come at any moment.         *)
(*                                                                         *)
(* Six specifications share the variables and the actions:                 *)
(*   SpecEscalation  a session under violations (page and host window);    *)
(*   SpecAttended    a session in which the student answers and submits;   *)
(*   SpecHistory     a session with the violation history modal;           *)
(*   SpecTeardown    a session under the scheduling of the event loop;     *)
(*   SpecHost        the main process under raw window and key events;     *)
(*   SpecServer      the scoring route under requests of any clients.      *)
(* The renderer listeners on quiz-window-blur, quiz-leave-fullscreen,      *)
(* quiz-minimize-attempt, quiz-close-attempt and auto-submit-quiz have no   *)
(* sender in the main process (it sends quiz-violation-detected only, and  *)
(* forceSubmitQuiz has no caller), so they have no action here.            *)
(***************************************************************************)
EXTENDS Integers, Sequences, FiniteSets, TLC

\* ---- program constants ----
MAX_WARNINGS == 3
GraceDelay == 2
WarningDelay == 4
CloseDelay == 4
TickPeriod == 1

\* ---- bounds of the model ----
\* the session is observed from LastSeconds seconds before the deadline
LastSeconds == 2
\* events of the environment in one session that change its state: accepted
\* violations, submit clicks, answers, failed requests
MaxEvents == 4
\* requests that other clients post to the scoring route
MaxRequests == 3

\* null and undefined of an answer field; null of timeRemaining and of
\* submissionResult
Null == "null"
Undefined == "undefined"
NullTime == -1
NoResult == [ set |-> FALSE, score |-> 0, maxScore |-> 0, attemptId |-> 0 ]

\* ---- the stored quiz and the signed-in student ----
\* (identifiers are opaque: the code compares them for equality only)
Session == [userId |-> "u7", quizId |-> "quiz1"]
QuizQuestions ==
  << [id |-> "q1", questionType |-> "mcq", points |-> 2,
      options |-> {[id |-> "a", isCorrect |-> TRUE], [id |-> "b", isCorrect |-> FALSE]}],
     [id |-> "q2", questionType |-> "descriptive", points |-> 3, options |-> {}] >>

VARIABLES
  isLockdownMode,   \* searchParams.get('lockdown') === 'true'
  electron,         \* isElectron()
  subs,             \* ipcRenderer listeners of the session, by channel
  hostInput,        \* the last raw event of the quiz window handled by the main process
  hostOutput,       \* what its handler did: messages sent to the renderer, calls on the window
  page,             \* "quiz" | "dashboard" | "closed"
  st,               \* committed React state
  nx,               \* React state with the queued updates applied
  selectedAnswers,  \* the answer objects (mutated in place by the handlers)
  answersChanged,   \* setSelectedAnswers was called since the last render
  hideTimers,       \* pending setTimeout(() => setShowWarning(false), 4000)
  graceTimers,      \* pending auto-submit timeouts of 2000 ms
  interval,         \* the countdown setInterval: seconds to the next call, -1 if none
  exitTimer,        \* the post-submission timeout: seconds left, -1 if none
  win,              \* the Electron quiz window (main process)
  hostCmds,         \* IPC commands the renderer sent, in order
  reqs,             \* the submit requests in flight, in the order they were sent
  db,               \* attempts, responses and warnings tables
  h                 \* history of the session (observations only)

vars == << isLockdownMode, electron, subs, hostInput, hostOutput, page, st, nx, selectedAnswers, answersChanged,
           hideTimers, graceTimers, interval, exitTimer, win, hostCmds,
           reqs, db, h >>

clientVars == << isLockdownMode, electron, subs, hostInput, hostOutput, page, st, nx, selectedAnswers, answersChanged,
                 hideTimers, graceTimers, interval, exitTimer, win, hostCmds, h >>

\* ---- React state ----
\* useState initial values; timeRemaining is set by fetchQuizQuestions
\* (durationMinutes * 60, or left null when durationMinutes is 0)
InitialState(t) ==
  [ isSubmitting |-> FALSE, isAutoSubmitting |-> FALSE, warningCount |-> 0,
    showWarning |-> FALSE, warningMessage |-> [kind |-> "none", count |-> 0, max |-> 0],
    violations |-> << >>, showViolationHistory |-> FALSE,
    timeRemaining |-> t, submissionResult |-> NoResult ]

\* initialAnswers of fetchQuizQuestions
InitialAnswers ==
  [ i \in 1..Len(QuizQuestions) |->
      [ questionId |-> QuizQuestions[i].id,
        optionId |-> IF QuizQuestions[i].questionType = "mcq" THEN Null ELSE Undefined,
        textResponse |-> IF QuizQuestions[i].questionType = "mcq" THEN Undefined ELSE "" ] ]

\* new BrowserWindow({fullscreen, kiosk, closable: false, alwaysOnTop, ..})
NewQuizWindow ==
  [ exists |-> TRUE, allowExit |-> FALSE, forceClose |-> FALSE, kiosk |-> TRUE,
    fullscreen |-> TRUE, closable |-> FALSE, alwaysOnTop |-> TRUE ]

NoWindow ==
  [ exists |-> FALSE, allowExit |-> FALSE, forceClose |-> FALSE, kiosk |-> FALSE,
    fullscreen |-> FALSE, closable |-> FALSE, alwaysOnTop |-> FALSE ]

EmptyDb == [ attempts |-> {}, responses |-> << >>, warnings |-> << >> ]

InitialHistory ==
  [ accepted |-> 0,          \* deliveries that passed the guard of handleWarningTrigger
    bursty |-> FALSE,        \* two deliveries were accepted with no render between them
    graceScheduled |-> 0,    \* auto-submit timeouts scheduled
    graceInvoked |-> 0,      \* calls of submitQuizRef.current by an auto-submit timeout
    shown |-> << >>,         \* the warning messages shown, in order
    timeoutCalls |-> 0,      \* calls of handleSubmitQuiz by the countdown
    timeoutPrompted |-> FALSE, \* such a call opened window.confirm
    timeoutCancelled |-> FALSE, \* and the student cancelled it
    failed |-> FALSE,        \* handleSubmitQuiz reached its catch block
    alert |-> "none",        \* the text of the last alert() of the catch block
    posts |-> [ manual |-> 0, timer |-> 0, auto |-> 0 ], \* requests sent, by trigger
    events |-> 0 ]           \* events of the environment so far

\* The session is opened by StudentDashboard: in Electron through
\* open-quiz-window (lockdown=true), in a browser by plain navigation; a
\* browser may also be given the lockdown=true URL.
LaunchModes == { <<TRUE, TRUE>>, <<TRUE, FALSE>>, <<FALSE, FALSE>> }

StartTimes == { NullTime, LastSeconds }

\* the channels of the on.. helpers of the IPC module
Channels ==
  { "quiz-window-blur", "quiz-leave-fullscreen", "quiz-minimize-attempt",
    "quiz-close-attempt", "auto-submit-quiz" }

\* The listeners of a channel are counted by the render that made them:
\* current for callbacks made by the effect of the last commit, stale for
\* callbacks that an earlier effect made.
NoListeners == [ ch \in Channels |-> [current |-> 0, stale |-> 0] ]

\* ipcRenderer.on(channel, callback) with a callback of this effect
On(reg, ch) == [reg EXCEPT ![ch].current = @ + 1]

\* a variant of the handle that removes nothing
HandleKeeps(reg, ch) == reg

\* the handle returned by a helper, called by the cleanup of the effect
\* that made the callback, once a new commit has made that callback stale:
\* ipcRenderer.removeListener(channel, callback)
RemoveListener(reg, ch) == [reg EXCEPT ![ch].stale = IF @ > 0 THEN @ - 1 ELSE @]

\* the callbacks of the previous effect, seen from a new commit
Aged(reg) == [ ch \in Channels |-> [current |-> 0, stale |-> reg[ch].stale + reg[ch].current] ]

\* the cleanup of the Electron listener effect: every handle is called
Cleanup(reg) == [ ch \in Channels |-> RemoveListener(reg, ch)[ch] ]

\* the body of the Electron listener effect: one on.. call per channel
Subscribe(reg) == [ ch \in Channels |-> On(reg, ch)[ch] ]

\* before any raw event was handled
NoInput == [kind |-> "none"]

NoOutput == [sent |-> << >>, calls |-> {}]

ClientInit ==
  /\ \E m \in LaunchModes : isLockdownMode = m[1] /\ electron = m[2]
  /\ page = "quiz"
  /\ \E t \in StartTimes :
        /\ st = InitialState(t)
        /\ nx = InitialState(t)
        /\ interval = IF t = NullTime THEN -1 ELSE TickPeriod
  /\ selectedAnswers = InitialAnswers
  /\ answersChanged = FALSE
  /\ hideTimers = << >>
  /\ graceTimers = << >>
  /\ exitTimer = -1
  /\ win = IF isLockdownMode /\ electron THEN NewQuizWindow ELSE NoWindow
  /\ hostCmds = << >>
  /\ subs = IF isLockdownMode /\ electron THEN Subscribe(NoListeners) ELSE NoListeners
  /\ hostInput = NoInput
  /\ hostOutput = NoOutput
  /\ h = InitialHistory

Init ==
  /\ ClientInit
  /\ reqs = << >>
  /\ db = EmptyDb

\* ======================= the renderer: QuizAttempt =======================

\* the component is mounted on the quiz page only; React drops the state
\* updates of an unmounted component
Mounted == page = "quiz"

SetState(n) == IF Mounted THEN n ELSE nx

\* a variant that takes every session for a lockdown session
LockdownAlways == TRUE

\* const isLockdownMode = searchParams.get('lockdown') === 'true', as the
\* callbacks and the listener effects read it
LockdownActive == isLockdownMode

\* the guard of handleWarningTrigger, read from the closure of the last render
Accepts == LockdownActive /\ ~st.isSubmitting /\ ~st.isAutoSubmitting

\* a variant that escalates one violation later (newCount > MAX_WARNINGS)
EscalatesAbove(newCount) == newCount > MAX_WARNINGS

\* newCount >= MAX_WARNINGS
Escalates(newCount) == newCount >= MAX_WARNINGS

\* the text set by setWarningMessage: "Final warning! .." or
\* "Warning ${newCount}/${MAX_WARNINGS}: ${reason}. .." (the reason is carried
\* through unchanged and is left out)
WarningMessageFor(newCount) ==
  IF Escalates(newCount)
  THEN [kind |-> "final", count |-> 0, max |-> 0]
  ELSE [kind |-> "warning", count |-> newCount, max |-> MAX_WARNINGS]

\* a variant whose counter stops at MAX_WARNINGS
WarningUpdateCapped(n, hasViolation, violation) ==
  LET newCount == IF n.warningCount < MAX_WARNINGS THEN n.warningCount + 1
                  ELSE n.warningCount IN
  [ n EXCEPT !.violations = IF hasViolation THEN Append(@, violation) ELSE @,
             !.warningCount = newCount,
             !.warningMessage = WarningMessageFor(newCount),
             !.showWarning = TRUE,
             !.isAutoSubmitting = IF Escalates(newCount) THEN TRUE ELSE @ ]

\* the state updates of one accepted call: setViolations(prev => [...prev,
\* violation]) when a violation is given, and the setWarningCount updater
WarningUpdate(n, hasViolation, violation) ==
  LET newCount == n.warningCount + 1 IN
  [ n EXCEPT !.violations = IF hasViolation THEN Append(@, violation) ELSE @,
             !.warningCount = newCount,
             !.warningMessage = WarningMessageFor(newCount),
             !.showWarning = TRUE,
             !.isAutoSubmitting = IF Escalates(newCount) THEN TRUE ELSE @ ]

\* handleWarningTrigger(reason, violation?)
HandleWarningTrigger(hasViolation, violation) ==
  IF ~Accepts
  THEN UNCHANGED << nx, hideTimers, graceTimers, h >>
  ELSE LET newCount == nx.warningCount + 1 IN
       /\ h.events < MaxEvents
       /\ nx' = WarningUpdate(nx, hasViolation, violation)
       /\ graceTimers' = IF Escalates(newCount)
                         THEN Append(graceTimers, GraceDelay) ELSE graceTimers
       /\ hideTimers' = IF Escalates(newCount)
                        THEN hideTimers ELSE Append(hideTimers, WarningDelay)
       /\ h' = [ h EXCEPT !.accepted = @ + 1,
                          !.events = @ + 1,
                          !.bursty = @ \/ nx.warningCount # st.warningCount,
                          !.graceScheduled = IF Escalates(newCount) THEN @ + 1 ELSE @,
                          !.shown = Append(@, WarningMessageFor(newCount)) ]

\* selectedAnswers.filter((ans) => ans.optionId === null).length > 0
HasUnanswered == \E i \in DOMAIN selectedAnswers : selectedAnswers[i].optionId = Null

\* unanswered.length > 0 && timeRemaining !== 0 && !isAutoSubmitting
NeedsConfirm == HasUnanswered /\ st.timeRemaining # 0 /\ ~st.isAutoSubmitting

\* selectedAnswers.filter(optionId !== null).map({questionId, optionId})
RECURSIVE ResponsesFrom(_, _)
ResponsesFrom(answers, i) ==
  IF i > Len(answers) THEN << >>
  ELSE IF answers[i].optionId # Null
       THEN << [ questionId |-> answers[i].questionId, optionId |-> answers[i].optionId,
                 textResponse |-> Undefined ] >> \o ResponsesFrom(answers, i + 1)
       ELSE ResponsesFrom(answers, i + 1)

\* the body of apiClient.post(`/api/quiz/${quiz.id}/attempt`, ..)
NewRequest(trigger) ==
  [ from |-> "session", trigger |-> trigger,
    userId |-> Session.userId, quizId |-> Session.quizId,
    responses |-> ResponsesFrom(selectedAnswers, 1),
    violations |-> st.violations,
    status |-> IF st.isAutoSubmitting THEN "auto_submitted" ELSE "submitted",
    responsesIsArray |-> TRUE,
    pc |-> "sent", reply |-> "none", result |-> NoResult, dbError |-> FALSE ]

\* the early returns of handleSubmitQuiz: isSubmitting of its closure, and
\* the answer to window.confirm when it is asked (user and quiz are loaded)
Proceeds(confirmed) == ~st.isSubmitting /\ (NeedsConfirm => confirmed)

\* handleSubmitQuiz up to its await: setIsSubmitting(true) and the request
HandleSubmitQuiz(base, trigger, confirmed) ==
  /\ nx' = SetState(IF Proceeds(confirmed) THEN [base EXCEPT !.isSubmitting = TRUE] ELSE base)
  /\ reqs' = IF Proceeds(confirmed) THEN Append(reqs, NewRequest(trigger)) ELSE reqs

\* the fixed inset-0 z-50 layers: success modal, auto-submit overlay,
\* warning popup, violation history modal; they cover the page and take the
\* pointer (the history modal comes last in the document and lies on top)
OverlayShown ==
  \/ st.submissionResult.set
  \/ st.isAutoSubmitting /\ ~st.showWarning
  \/ st.showWarning
  \/ st.showViolationHistory

RenderPending == Mounted /\ (nx # st \/ answersChanged)

\* the page loses focus or is hidden.  The visibilitychange (hidden) and
\* blur listeners are registered by a lockdown session only; without them
\* the event passes unheard.
BrowserEvent ==
  /\ page = "quiz"
  /\ IF LockdownActive
     THEN HandleWarningTrigger(FALSE, [type |-> "none", severity |-> "none"])
     ELSE /\ h.events < MaxEvents
          /\ h' = [h EXCEPT !.events = @ + 1]
          /\ UNCHANGED << nx, hideTimers, graceTimers >>
  /\ UNCHANGED << isLockdownMode, electron, subs, hostInput, hostOutput, page, st, selectedAnswers, answersChanged,
                  interval, exitTimer, win, hostCmds, reqs, db >>

\* the Submit Quiz button: onClick={handleSubmitQuiz} disabled={isSubmitting}
ClickSubmit ==
  /\ page = "quiz"
  /\ ~st.isSubmitting
  /\ ~OverlayShown
  /\ h.events < MaxEvents
  /\ \E confirmed \in BOOLEAN :
        /\ HandleSubmitQuiz(nx, "manual", confirmed)
        /\ h' = IF Proceeds(confirmed)
                THEN [h EXCEPT !.events = @ + 1, !.posts.manual = @ + 1] ELSE h
  /\ UNCHANGED << isLockdownMode, electron, subs, hostInput, hostOutput, page, st, selectedAnswers, answersChanged,
                  hideTimers, graceTimers, interval, exitTimer, win, hostCmds, db >>

\* the Violations (n) button of the header, rendered in lockdown mode when
\* the log is not empty: setShowViolationHistory(true)
OpenHistory ==
  /\ page = "quiz"
  /\ isLockdownMode /\ st.violations # << >>
  /\ ~OverlayShown
  /\ nx' = [nx EXCEPT !.showViolationHistory = TRUE]
  /\ UNCHANGED << isLockdownMode, electron, subs, hostInput, hostOutput, page, st, selectedAnswers, answersChanged,
                  hideTimers, graceTimers, interval, exitTimer, win, hostCmds, reqs, db, h >>

\* the Clear History button of the modal: setViolations([])
ClearHistory ==
  /\ page = "quiz"
  /\ st.showViolationHistory
  /\ h.events < MaxEvents
  /\ nx' = [nx EXCEPT !.violations = << >>]
  /\ h' = [h EXCEPT !.events = @ + 1]
  /\ UNCHANGED << isLockdownMode, electron, subs, hostInput, hostOutput, page, st, selectedAnswers, answersChanged,
                  hideTimers, graceTimers, interval, exitTimer, win, hostCmds, reqs, db >>

\* the Close buttons of the modal: setShowViolationHistory(false)
CloseHistory ==
  /\ page = "quiz"
  /\ st.showViolationHistory
  /\ nx' = [nx EXCEPT !.showViolationHistory = FALSE]
  /\ UNCHANGED << isLockdownMode, electron, subs, hostInput, hostOutput, page, st, selectedAnswers, answersChanged,
                  hideTimers, graceTimers, interval, exitTimer, win, hostCmds, reqs, db, h >>

\* handleSelectOption: the answer object of the array is assigned in place
SelectOption(i, o) ==
  /\ page = "quiz"
  /\ ~OverlayShown
  /\ h.events < MaxEvents
  /\ QuizQuestions[i].questionType = "mcq"
  /\ selectedAnswers' = [selectedAnswers EXCEPT ![i].optionId = o]
  /\ answersChanged' = TRUE
  /\ h' = [h EXCEPT !.events = @ + 1]
  /\ UNCHANGED << isLockdownMode, electron, subs, hostInput, hostOutput, page, st, nx, hideTimers, graceTimers,
                  interval, exitTimer, win, hostCmds, reqs, db >>

\* handleTextResponseChange
TextResponseChange(i, text) ==
  /\ page = "quiz"
  /\ ~OverlayShown
  /\ h.events < MaxEvents
  /\ QuizQuestions[i].questionType # "mcq"
  /\ selectedAnswers' = [selectedAnswers EXCEPT ![i].textResponse = text]
  /\ answersChanged' = TRUE
  /\ h' = [h EXCEPT !.events = @ + 1]
  /\ UNCHANGED << isLockdownMode, electron, subs, hostInput, hostOutput, page, st, nx, hideTimers, graceTimers,
                  interval, exitTimer, win, hostCmds, reqs, db >>

\* setTimeout(() => setShowWarning(false), 4000); no cleanup clears it, so
\* it also fires after the component has unmounted
HideTimerFires ==
  /\ page # "closed"
  /\ hideTimers # << >> /\ Head(hideTimers) = 0
  /\ hideTimers' = Tail(hideTimers)
  /\ nx' = SetState([nx EXCEPT !.showWarning = FALSE])
  /\ UNCHANGED << isLockdownMode, electron, subs, hostInput, hostOutput, page, st, selectedAnswers, answersChanged,
                  graceTimers, interval, exitTimer, win, hostCmds, reqs, db, h >>

\* the auto-submit timeout: setShowWarning(false); submitQuizRef.current().
\* No cleanup clears it either: after navigate() it calls the handler that
\* the ref still holds.
GraceTimerFires ==
  /\ page # "closed"
  /\ graceTimers # << >> /\ Head(graceTimers) = 0
  /\ graceTimers' = Tail(graceTimers)
  /\ \E confirmed \in BOOLEAN :
        /\ HandleSubmitQuiz([nx EXCEPT !.showWarning = FALSE], "auto", confirmed)
        /\ h' = [h EXCEPT !.graceInvoked = @ + 1,
                          !.posts.auto = IF Proceeds(confirmed) THEN @ + 1 ELSE @]
  /\ UNCHANGED << isLockdownMode, electron, subs, hostInput, hostOutput, page, st, selectedAnswers, answersChanged,
                  hideTimers, interval, exitTimer, win, hostCmds, db >>

\* the setInterval callback: setTimeRemaining(prev => ..)
IntervalFires ==
  /\ page = "quiz"
  /\ interval = 0
  /\ IF nx.timeRemaining = NullTime \/ nx.timeRemaining <= 1
     THEN /\ interval' = -1
          /\ \E confirmed \in BOOLEAN :
                /\ HandleSubmitQuiz([nx EXCEPT !.timeRemaining = 0], "timer", confirmed)
                /\ h' = [ h EXCEPT !.timeoutCalls = @ + 1,
                                   !.posts.timer = IF Proceeds(confirmed) THEN @ + 1 ELSE @,
                                   !.timeoutPrompted = @ \/ (~st.isSubmitting /\ NeedsConfirm),
                                   !.timeoutCancelled =
                                      @ \/ (~st.isSubmitting /\ NeedsConfirm /\ ~confirmed) ]
     ELSE /\ interval' = TickPeriod
          /\ nx' = [nx EXCEPT !.timeRemaining = @ - 1]
          /\ UNCHANGED << reqs, h >>
  /\ UNCHANGED << isLockdownMode, electron, subs, hostInput, hostOutput, page, st, selectedAnswers, answersChanged,
                  hideTimers, graceTimers, exitTimer, win, hostCmds, db >>

\* ---- the main process: IPC handlers of the quiz window ----

\* ipcMain.on('allow-quiz-exit')
AllowQuizExitHandler(w) ==
  IF w.exists
  THEN [ w EXCEPT !.allowExit = TRUE, !.kiosk = FALSE, !.fullscreen = FALSE,
                  !.closable = TRUE, !.alwaysOnTop = FALSE ]
  ELSE w

\* a variant of the close handler that lets every close through
CloseNeverPrevented(w) == FALSE

\* quizWindow.on('close'): the close goes through only with forceClose or
\* allowExit; the window is then destroyed ('closed' sets quizWindow = null)
ClosePrevented(w) == ~w.forceClose /\ ~w.allowExit

\* a variant of the handler that leaves the window alone
CloseIgnored(w) == w

\* ipcMain.on('close-quiz-window'): forceClose = true; quizWindow.close()
CloseQuizWindowHandler(w) ==
  IF w.exists
  THEN LET f == [w EXCEPT !.forceClose = TRUE] IN
       IF ClosePrevented(f) THEN f ELSE [f EXCEPT !.exists = FALSE]
  ELSE w

\* a variant of the effect that sends no release command
ReleaseSkipped(cmds) == cmds

\* allowQuizExit(): ipcRenderer.send('allow-quiz-exit')
AllowQuizExit(cmds) == Append(cmds, "allow-quiz-exit")

\* closeQuizWindow(): ipcRenderer.send('close-quiz-window')
CloseQuizWindow(cmds) == Append(cmds, "close-quiz-window")

\* handleWarningTrigger was created anew by this render (its useCallback
\* deps), so the listener effects run again
WarningHandlerChanged ==
  \/ nx.isSubmitting # st.isSubmitting
  \/ nx.isAutoSubmitting # st.isAutoSubmitting

\* handleSubmitQuiz was created anew by this render (its useCallback deps)
SubmitHandlerChanged ==
  \/ answersChanged
  \/ nx.isSubmitting # st.isSubmitting
  \/ nx.isAutoSubmitting # st.isAutoSubmitting
  \/ nx.timeRemaining # st.timeRemaining
  \/ nx.violations # st.violations

\* One render and its effects:
\*   - submitQuizRef.current = handleSubmitQuiz, and the listeners are
\*     registered again with the new handleWarningTrigger (callbacks read st);
\*   - the countdown effect (deps timeRemaining, handleSubmitQuiz) clears its
\*     interval and starts a new one unless timeRemaining is null or <= 0;
\*   - the post-submission effect (deps submissionResult) clears its timeout,
\*     calls allowQuizExit() in the Electron lockdown window, and starts the
\*     4 s timeout.
Render ==
  /\ page = "quiz"
  /\ RenderPending
  /\ st' = nx
  /\ answersChanged' = FALSE
  /\ subs' = IF isLockdownMode /\ electron /\ WarningHandlerChanged
             THEN Subscribe(Cleanup(Aged(subs))) ELSE subs
  /\ interval' = IF SubmitHandlerChanged
                 THEN (IF nx.timeRemaining = NullTime \/ nx.timeRemaining <= 0
                       THEN -1 ELSE TickPeriod)
                 ELSE interval
  /\ IF nx.submissionResult # st.submissionResult
     THEN IF nx.submissionResult.set
          THEN /\ exitTimer' = CloseDelay
               /\ IF isLockdownMode /\ electron
                  THEN /\ hostCmds' = AllowQuizExit(hostCmds)
                       /\ win' = AllowQuizExitHandler(win)
                  ELSE UNCHANGED << hostCmds, win >>
          ELSE /\ exitTimer' = -1
               /\ UNCHANGED << hostCmds, win >>
     ELSE UNCHANGED << exitTimer, hostCmds, win >>
  /\ UNCHANGED << isLockdownMode, electron, hostInput, hostOutput, page, nx, selectedAnswers, hideTimers,
                  graceTimers, reqs, db, h >>

\* the post-submission timeout: closeQuizWindow() in the Electron lockdown
\* window, navigate('/student-dashboard') otherwise (the component unmounts)
ExitTimerFires ==
  /\ page = "quiz"
  /\ exitTimer = 0
  /\ exitTimer' = -1
  /\ IF isLockdownMode /\ electron
     THEN /\ hostCmds' = CloseQuizWindow(hostCmds)
          /\ win' = CloseQuizWindowHandler(win)
          /\ page' = IF win'.exists THEN page ELSE "closed"
          /\ UNCHANGED interval
     ELSE /\ page' = "dashboard"
          /\ interval' = -1
          /\ UNCHANGED << hostCmds, win >>
  /\ UNCHANGED << isLockdownMode, electron, subs, hostInput, hostOutput, st, nx, selectedAnswers, answersChanged,
                  hideTimers, graceTimers, reqs, db, h >>

Dec(t) == IF t > 0 THEN t - 1 ELSE t

DecAll(timers) == [ i \in DOMAIN timers |-> Dec(timers[i]) ]

TimerDue ==
  \/ interval = 0
  \/ exitTimer = 0
  \/ \E i \in DOMAIN hideTimers : hideTimers[i] = 0
  \/ \E i \in DOMAIN graceTimers : graceTimers[i] = 0

TimerPending ==
  interval > 0 \/ exitTimer > 0 \/ hideTimers # << >> \/ graceTimers # << >>

\* one second passes
Tick ==
  /\ page # "closed"
  /\ ~RenderPending
  /\ ~TimerDue
  /\ TimerPending
  /\ interval' = Dec(interval)
  /\ exitTimer' = Dec(exitTimer)
  /\ hideTimers' = DecAll(hideTimers)
  /\ graceTimers' = DecAll(graceTimers)
  /\ UNCHANGED << isLockdownMode, electron, subs, hostInput, hostOutput, page, st, nx, selectedAnswers, answersChanged,
                  win, hostCmds, reqs, db, h >>

\* ---- the main process: events of the quiz window ----

\* the violation object built by each window event handler
HostViolation(e) ==
  CASE e = "blur" -> [type |-> "window_switch", severity |-> "high"]
    [] e = "leave-full-screen" -> [type |-> "fullscreen_exit", severity |-> "high"]
    [] e = "minimize" -> [type |-> "window_minimize", severity |-> "medium"]
    [] e = "close" -> [type |-> "window_close", severity |-> "high"]

\* the condition under which the handler of e sends quiz-violation-detected
HostReports(e, w) ==
  IF e = "close" THEN ClosePrevented(w) ELSE w.exists /\ ~w.allowExit

\* the window event the session is driven with: the close attempt, the one
\* event whose handler also lets the window go once the exit is allowed
SessionHostEvents == { "close" }

\* quizWindow.on(e, ..) followed by the renderer's onQuizViolationDetected
\* listener: handleWarningTrigger(violation.message, violation).  A close
\* that is not prevented destroys the window and with it the renderer.
HostWindowEvent(e) ==
  /\ page = "quiz"
  /\ win.exists
  /\ IF HostReports(e, win)
     THEN /\ HandleWarningTrigger(TRUE, HostViolation(e))
          /\ UNCHANGED << win, page >>
     ELSE /\ IF e = "close"
             THEN win' = [win EXCEPT !.exists = FALSE] /\ page' = "closed"
             ELSE UNCHANGED << win, page >>
          /\ UNCHANGED << nx, hideTimers, graceTimers, h >>
  /\ UNCHANGED << isLockdownMode, electron, subs, hostInput, hostOutput, st, selectedAnswers, answersChanged,
                  interval, exitTimer, hostCmds, reqs, db >>

\* ---- the main process: the handlers of the raw events, by themselves ----

\* the raw events of the quiz window: its window events and the key events
\* of before-input-event (input.key with the alt, control and shift flags)
WindowEvents == { "blur", "leave-full-screen", "minimize", "close" }

Keys == { "Tab", "Meta", "Super", "F11", "Escape", "F4", "I", "i", "R", "r", "a", "Enter" }

HostInputs ==
  { [kind |-> "window", event |-> e] : e \in WindowEvents }
    \cup [ kind : {"key"}, key : Keys, alt : BOOLEAN, control : BOOLEAN, shift : BOOLEAN ]

\* a variant of toLowerCase that leaves the key as it is
KeptCase(key) == key

\* input.key.toLowerCase()
ToLowerCase(key) ==
  CASE key = "Tab" -> "tab"
    [] key = "I" -> "i"
    [] key = "R" -> "r"
    [] key = "Meta" -> "meta"
    [] key = "Super" -> "super"
    [] key = "Escape" -> "escape"
    [] key = "Enter" -> "enter"
    [] key = "F11" -> "f11"
    [] key = "F4" -> "f4"
    [] OTHER -> key

NoViolation == [type |-> "none", severity |-> "none"]

\* the if / else-if chain of the before-input-event handler
KeyViolation(input) ==
  IF input.alt /\ ToLowerCase(input.key) = "tab"
    THEN [type |-> "alt_tab", severity |-> "high"]
  ELSE IF input.key = "Meta" \/ input.key = "Super"
    THEN [type |-> "windows_key", severity |-> "high"]
  ELSE IF input.key = "F11"
    THEN [type |-> "f11_key", severity |-> "high"]
  ELSE IF input.key = "Escape"
    THEN [type |-> "escape_key", severity |-> "high"]
  ELSE IF input.alt /\ input.key = "F4"
    THEN [type |-> "alt_f4", severity |-> "high"]
  ELSE IF input.control /\ input.shift /\ ToLowerCase(input.key) = "i"
    THEN [type |-> "devtools_shortcut", severity |-> "medium"]
  ELSE IF input.control /\ ToLowerCase(input.key) = "r"
    THEN [type |-> "refresh_shortcut", severity |-> "medium"]
  ELSE NoViolation

\* a variant of the guard of the handlers that does not look at allowExit
GuardWithoutAllowExit(input, w) ==
  IF input.kind = "key" THEN TRUE
  ELSE IF input.event = "close" THEN ~w.forceClose
  ELSE w.exists

\* the guard of the handler of a raw event
HandlerGuard(input, w) ==
  IF input.kind = "key" THEN ~w.allowExit
  ELSE IF input.event = "close" THEN ClosePrevented(w)
  ELSE IF input.event = "minimize" THEN ~w.allowExit
  ELSE w.exists /\ ~w.allowExit

\* what the handler of a raw event does: the quiz-violation-detected
\* messages it sends and its calls on the event and on the window
HandlerOutput(input, w) ==
  IF ~HandlerGuard(input, w) THEN NoOutput
  ELSE IF input.kind = "key"
    THEN IF KeyViolation(input) = NoViolation THEN NoOutput
         ELSE [sent |-> << KeyViolation(input) >>, calls |-> {"preventDefault"}]
  ELSE IF input.event = "blur"
    THEN [sent |-> << HostViolation("blur") >>, calls |-> {"focus"}]
  ELSE IF input.event = "leave-full-screen"
    THEN [sent |-> << HostViolation("leave-full-screen") >>, calls |-> {"setFullScreen"}]
  ELSE IF input.event = "minimize"
    THEN IF w.exists
         THEN [sent |-> << HostViolation("minimize") >>, calls |-> {"preventDefault", "restore"}]
         ELSE [sent |-> << >>, calls |-> {"preventDefault"}]
  ELSE [sent |-> << HostViolation("close") >>, calls |-> {"preventDefault"}]

\* the main process handles one raw event of the quiz window; a close that
\* is not prevented destroys the window
HostHandles(input) ==
  /\ win.exists
  /\ hostInput' = input
  /\ hostOutput' = HandlerOutput(input, win)
  /\ IF input.kind = "window" /\ input.event = "close" /\ ~ClosePrevented(win)
     THEN win' = [win EXCEPT !.exists = FALSE] /\ page' = "closed"
     ELSE UNCHANGED << win, page >>
  /\ UNCHANGED << isLockdownMode, electron, subs, st, nx, selectedAnswers, answersChanged,
                  hideTimers, graceTimers, interval, exitTimer, hostCmds, reqs, db, h >>

\* ipcMain.on('allow-quiz-exit') and ipcMain.on('close-quiz-window'), for a
\* command that arrives at any moment
IpcArrives(cmd) ==
  /\ h.events < MaxEvents
  /\ h' = [h EXCEPT !.events = @ + 1]
  /\ hostCmds' = Append(hostCmds, cmd)
  /\ win' = IF cmd = "allow-quiz-exit" THEN AllowQuizExitHandler(win)
            ELSE CloseQuizWindowHandler(win)
  /\ page' = IF win.exists /\ ~win'.exists THEN "closed" ELSE page
  /\ UNCHANGED << isLockdownMode, electron, subs, hostInput, hostOutput, st, nx, selectedAnswers,
                  answersChanged, hideTimers, graceTimers, interval, exitTimer, reqs, db >>

\* ================= the scoring route: POST /:id/attempt =================

StoredUsers == { "u7", "u8" }
StoredQuizzes == { "quiz1", "quiz2" }

\* a second stored quiz: two mcq questions and a descriptive one
SecondQuizQuestions ==
  << [id |-> "q3", questionType |-> "mcq", points |-> 2,
      options |-> {[id |-> "c", isCorrect |-> TRUE], [id |-> "d", isCorrect |-> FALSE]}],
     [id |-> "q4", questionType |-> "mcq", points |-> 3,
      options |-> {[id |-> "e", isCorrect |-> TRUE], [id |-> "f", isCorrect |-> FALSE]}],
     [id |-> "q5", questionType |-> "descriptive", points |-> 4, options |-> {}] >>

\* prisma.quiz.findUnique({where: {id: quizId}, include: {questions: {include:
\* {options: true}}}}): the questions of a stored quiz
QuestionsOf(quizId) == IF quizId = "quiz1" THEN QuizQuestions ELSE SecondQuizQuestions

\* prisma.attempt.findUnique({where: {userId_quizId}})
ExistingAttempt(d, userId, quizId) ==
  \E a \in d.attempts : a.userId = userId /\ a.quizId = quizId

\* quiz.questions.find((q) => q.id === Number(response.questionId))
QuestionOf(questions, questionId) ==
  { questions[i] : i \in { j \in DOMAIN questions : questions[j].id = questionId } }

\* a variant that scores any option of an mcq question
IsCorrectAnyOption(q, optionId) ==
  /\ q.questionType = "mcq"
  /\ \E o \in q.options : o.id = optionId

\* selectedOption?.isCorrect || false, for an mcq question only
IsCorrect(q, optionId) ==
  /\ q.questionType = "mcq"
  /\ \E o \in q.options : o.id = optionId /\ o.isCorrect

\* the scoring loop: totalScore and maxScore over the responses from i on
RECURSIVE TotalScore(_, _, _)
TotalScore(questions, responses, i) ==
  IF i > Len(responses) THEN 0
  ELSE LET qs == QuestionOf(questions, responses[i].questionId) IN
       IF qs = {} THEN TotalScore(questions, responses, i + 1)
       ELSE LET q == CHOOSE x \in qs : TRUE IN
            (IF IsCorrect(q, responses[i].optionId) THEN q.points ELSE 0)
              + TotalScore(questions, responses, i + 1)

RECURSIVE MaxScore(_, _, _)
MaxScore(questions, responses, i) ==
  IF i > Len(responses) THEN 0
  ELSE LET qs == QuestionOf(questions, responses[i].questionId) IN
       IF qs = {} THEN MaxScore(questions, responses, i + 1)
       ELSE (CHOOSE x \in qs : TRUE).points + MaxScore(questions, responses, i + 1)

\* tx.response.create for every response whose question is in the quiz
RECURSIVE ResponseRows(_, _, _, _)
ResponseRows(questions, responses, i, attemptId) ==
  IF i > Len(responses) THEN << >>
  ELSE IF QuestionOf(questions, responses[i].questionId) = {} THEN ResponseRows(questions, responses, i + 1, attemptId)
       ELSE << [ attemptId |-> attemptId, questionId |-> responses[i].questionId,
                 selectedOptionId |-> IF responses[i].optionId \in {Null, Undefined}
                                      THEN Null ELSE responses[i].optionId,
                 textResponse |-> IF responses[i].textResponse \in {Null, Undefined, ""}
                                  THEN Null ELSE responses[i].textResponse ] >>
            \o ResponseRows(questions, responses, i + 1, attemptId)

\* tx.warning.create for every violation: warningType = String(v?.type || 'violation')
WarningRows(violations, attemptId, userId) ==
  [ i \in DOMAIN violations |->
      [ attemptId |-> attemptId, userId |-> userId, warningType |-> violations[i].type ] ]

\* status === 'auto_submitted' ? 'auto_submitted' : 'submitted'
StoredStatus(status) == IF status = "auto_submitted" THEN "auto_submitted" ELSE "submitted"

\* the rows written by the transaction of request r
Committed(d, r) ==
  LET attemptId == Cardinality(d.attempts) + 1 IN
  [ attempts |-> d.attempts \cup
       { [ id |-> attemptId, userId |-> r.userId, quizId |-> r.quizId,
           status |-> StoredStatus(r.status), score |-> TotalScore(QuestionsOf(r.quizId), r.responses, 1) ] },
    responses |-> d.responses \o ResponseRows(QuestionsOf(r.quizId), r.responses, 1, attemptId),
    warnings |-> d.warnings \o WarningRows(r.violations, attemptId, r.userId) ]

\* the 201 body
Created(d, r) ==
  [ set |-> TRUE, score |-> TotalScore(QuestionsOf(r.quizId), r.responses, 1),
    maxScore |-> MaxScore(QuestionsOf(r.quizId), r.responses, 1), attemptId |-> Cardinality(d.attempts) + 1 ]

\* a variant of the route without the findUnique test
PreCheckNoLookup(d, r) ==
  IF r.userId = "" \/ ~r.responsesIsArray THEN "400bad"
  ELSE IF r.quizId \notin StoredQuizzes THEN "404"
  ELSE "ok"

\* the part of the route before the transaction: the 400 for a missing
\* userId or responses array, findUnique and its 400, the quiz lookup and
\* its 404
PreCheck(d, r) ==
  IF r.userId = "" \/ ~r.responsesIsArray THEN "400bad"
  ELSE IF ExistingAttempt(d, r.userId, r.quizId) THEN "400dup"
  ELSE IF r.quizId \notin StoredQuizzes THEN "404"
  ELSE "ok"

\* tx.attempt.create fails on attempts_user_id_quiz_id_key and on the users
\* foreign key; the error reaches the catch block of the route
CreateFails(d, r) ==
  ExistingAttempt(d, r.userId, r.quizId) \/ r.userId \notin StoredUsers

\* a variant of the transaction that keeps the attempt row when it fails
AttemptKept(d, r) == [d EXCEPT !.attempts = Committed(d, r).attempts]

\* prisma.$transaction(async (tx) => ..) whose callback throws: the writes
\* made through tx are rolled back
RolledBack(d, r) == d

ServerCheck(i) ==
  /\ reqs[i].pc = "sent"
  /\ LET c == PreCheck(db, reqs[i]) IN
       reqs' = IF c = "ok"
               THEN [reqs EXCEPT ![i].pc = "checked"]
               ELSE [reqs EXCEPT ![i].pc = "replied", ![i].reply = c]
  /\ UNCHANGED << clientVars, db >>

\* prisma.$transaction: committed as a whole or rolled back as a whole;
\* dbFails is a database error inside it
ServerTransaction(i, dbFails) ==
  /\ reqs[i].pc = "checked"
  /\ dbFails => h.events < MaxEvents
  /\ IF dbFails \/ CreateFails(db, reqs[i])
     THEN /\ reqs' = [reqs EXCEPT ![i].pc = "replied", ![i].reply = "500",
                                  ![i].dbError = dbFails]
          /\ db' = RolledBack(db, reqs[i])
     ELSE /\ db' = Committed(db, reqs[i])
          /\ reqs' = [reqs EXCEPT ![i].pc = "replied", ![i].reply = "201",
                                  ![i].result = Created(db, reqs[i])]
  /\ h' = IF dbFails THEN [h EXCEPT !.events = @ + 1] ELSE h
  /\ UNCHANGED << isLockdownMode, electron, subs, hostInput, hostOutput, page, st, nx, selectedAnswers, answersChanged,
                  hideTimers, graceTimers, interval, exitTimer, win, hostCmds >>

\* a variant whose catch block also clears isAutoSubmitting
AfterResponseResets(n, ok, result) ==
  IF ok THEN [n EXCEPT !.submissionResult = result, !.isSubmitting = FALSE]
  ELSE [n EXCEPT !.isSubmitting = FALSE, !.isAutoSubmitting = FALSE]

\* the continuation of handleSubmitQuiz after the await: on a 2xx
\* setSubmissionResult, otherwise the catch block (alert); finally
\* setIsSubmitting(false)
AfterResponse(n, ok, result) ==
  IF ok THEN [n EXCEPT !.submissionResult = result, !.isSubmitting = FALSE]
  ELSE [n EXCEPT !.isSubmitting = FALSE]

\* res.status(..).json({ message }) of the route, by reply
ResponseMessage(reply) ==
  CASE reply = "400bad" -> "User ID and responses array are required"
    [] reply = "400dup" -> "You have already attempted this quiz. Multiple attempts are not allowed."
    [] reply = "404" -> "Quiz not found"
    [] reply = "500" -> "Failed to submit quiz attempt"
    [] OTHER -> "none"

\* the catch block: alert('Failed to submit quiz. Please try again.'),
\* whatever the error
FailureAlert(reply) == "Failed to submit quiz. Please try again."

Remove(seq, i) == SubSeq(seq, 1, i - 1) \o SubSeq(seq, i + 1, Len(seq))

Settle(i, reply) ==
  /\ reqs' = Remove(reqs, i)
  /\ IF reqs[i].from = "session"
     THEN /\ nx' = SetState(AfterResponse(nx, reply = "201", reqs[i].result))
          /\ h' = [h EXCEPT !.failed = @ \/ reply # "201",
                            !.alert = IF reply # "201" THEN FailureAlert(reply) ELSE @,
                            !.events = IF reply = "neterr" THEN @ + 1 ELSE @]
     ELSE /\ nx' = nx
          /\ h' = [h EXCEPT !.events = IF reply = "neterr" THEN @ + 1 ELSE @]
  /\ UNCHANGED << isLockdownMode, electron, subs, hostInput, hostOutput, page, st, selectedAnswers, answersChanged,
                  hideTimers, graceTimers, interval, exitTimer, win, hostCmds, db >>

\* the reply of the route reaches the client
ResponseArrives(i) ==
  /\ reqs[i].pc = "replied"
  /\ Settle(i, reqs[i].reply)

\* the request does not reach the server: axios rejects with a network error
NetworkFailure(i) ==
  /\ reqs[i].pc = "sent"
  /\ reqs[i].from = "session"
  /\ h.events < MaxEvents
  /\ Settle(i, "neterr")

\* ---- other clients of the route ----

\* one entry of the responses array: an option chosen for a question
OneAnswer(questionId, optionId) ==
  << [questionId |-> questionId, optionId |-> optionId, textResponse |-> Undefined] >>

\* bodies a client can post: well formed for a stored user and quiz, with a
\* missing userId, with responses that is no array, for an unknown quiz,
\* for a user that is not in the users table, and for the second quiz: a
\* correct and a wrong option, and a body that also carries an option of
\* another question, a descriptive answer and a question of another quiz
ClientRequests ==
  { [ from |-> "other", trigger |-> "manual", userId |-> b[1], quizId |-> b[2],
      responses |-> b[3],
      violations |-> << >>, status |-> "submitted", responsesIsArray |-> b[4],
      pc |-> "sent", reply |-> "none", result |-> NoResult, dbError |-> FALSE ] :
    b \in { <<"u7", "quiz1", OneAnswer("q1", "a"), TRUE>>,
            <<"u7", "quiz1", OneAnswer("q1", "b"), TRUE>>,
            <<"u8", "quiz1", OneAnswer("q1", "a"), TRUE>>,
            <<"", "quiz1", OneAnswer("q1", "a"), TRUE>>,
            <<"u7", "quiz1", OneAnswer("q1", "a"), FALSE>>,
            <<"u7", "quiz9", OneAnswer("q1", "a"), TRUE>>,
            <<"u9", "quiz1", OneAnswer("q1", "a"), TRUE>>,
            <<"u7", "quiz2", OneAnswer("q3", "c") \o OneAnswer("q4", "f"), TRUE>>,
            <<"u8", "quiz2",
              OneAnswer("q3", "c") \o OneAnswer("q4", "c")
                \o << [questionId |-> "q5", optionId |-> Undefined, textResponse |-> "x"] >>
                \o OneAnswer("q1", "a"),
              TRUE>> } }

\* a request reaches router.post('/:id/attempt')
RequestArrives(r) ==
  /\ h.events < MaxRequests
  /\ reqs' = Append(reqs, r)
  /\ h' = [h EXCEPT !.events = @ + 1]
  /\ UNCHANGED << isLockdownMode, electron, subs, hostInput, hostOutput, page, st, nx, selectedAnswers, answersChanged,
                  hideTimers, graceTimers, interval, exitTimer, win, hostCmds, db >>

\* ============================ specifications ============================

\* the steps of the scoring route and of the network, for every session
Backend ==
  \/ \E i \in DOMAIN reqs : ServerCheck(i)
  \/ \E i \in DOMAIN reqs : ServerTransaction(i, FALSE)
  \/ \E i \in DOMAIN reqs : ResponseArrives(i)
  \/ \E i \in DOMAIN reqs : NetworkFailure(i)

\* the lifetime of the page: renders, the countdown, the exit
Lifecycle ==
  \/ IntervalFires
  \/ Render
  \/ ExitTimerFires
  \/ Tick

\* A session in which the student leaves the quiz page alone and violations
\* arrive from the page and from the host window.
NextEscalation ==
  \/ BrowserEvent
  \/ \E e \in SessionHostEvents : HostWindowEvent(e)
  \/ HideTimerFires
  \/ GraceTimerFires
  \/ Lifecycle
  \/ Backend

SpecEscalation == Init /\ [][NextEscalation]_vars

\* the steps the event loop takes by itself: a pending render, a due timer
\* callback, the passing of a second
EventLoop ==
  \/ Lifecycle
  \/ HideTimerFires
  \/ GraceTimerFires

\* A session whose violations are the close attempts on the host window,
\* under the scheduling of the event loop: as long as it has a step to take,
\* it takes one.
NextTeardown ==
  \/ \E e \in SessionHostEvents : HostWindowEvent(e)
  \/ EventLoop
  \/ Backend

SpecTeardown == Init /\ [][NextTeardown]_vars /\ WF_vars(EventLoop)

\* A session without violations: the student answers and submits.
NextAttended ==
  \/ ClickSubmit
  \/ \E i \in DOMAIN QuizQuestions : \E o \in {"a", "b"} : SelectOption(i, o)
  \/ \E i \in DOMAIN QuizQuestions : TextResponseChange(i, "x")
  \/ Lifecycle
  \/ Backend

\* (without violations a lockdown page in a browser behaves as a page that is
\* not in lockdown)
InitAttended == Init /\ (isLockdownMode => electron)

SpecAttended == InitAttended /\ [][NextAttended]_vars

\* A lockdown session in the quiz window, without a time limit, in which the
\* student also opens the violation history and clears it.
InitHistory == Init /\ isLockdownMode /\ electron /\ st.timeRemaining = NullTime

NextHistory ==
  \/ BrowserEvent
  \/ \E e \in SessionHostEvents : HostWindowEvent(e)
  \/ OpenHistory
  \/ ClearHistory
  \/ CloseHistory
  \/ HideTimerFires
  \/ GraceTimerFires
  \/ Render
  \/ ExitTimerFires
  \/ Tick
  \/ Backend

SpecHistory == InitHistory /\ [][NextHistory]_vars

\* The main process by itself: raw events of the quiz window and commands of
\* the renderer in any order; the page stays idle.
InitHost == Init /\ isLockdownMode /\ electron /\ st.timeRemaining = NullTime

NextHost ==
  \/ \E input \in HostInputs : HostHandles(input)
  \/ \E cmd \in { "allow-quiz-exit", "close-quiz-window" } : IpcArrives(cmd)

SpecHost == InitHost /\ [][NextHost]_vars

\* The scoring route under requests of any clients; the page stays idle.
InitServer == Init /\ ~isLockdownMode /\ st.timeRemaining = NullTime

NextServer ==
  \/ \E r \in ClientRequests : RequestArrives(r)
  \/ \E i \in DOMAIN reqs : ServerCheck(i)
  \/ \E i \in DOMAIN reqs : \E dbFails \in BOOLEAN : ServerTransaction(i, dbFails)
  \/ \E i \in DOMAIN reqs : ResponseArrives(i)

SpecServer == InitServer /\ [][NextServer]_vars

\* ================================ claims ================================

\* requests the session has sent
Posts == h.posts.manual + h.posts.timer + h.posts.auto

\* the countdown callback reaches zero in this step and calls handleSubmitQuiz
TimeoutCall == h'.timeoutCalls = h.timeoutCalls + 1

\* C1: as long as no request has failed (a failure is what a retry answers),
\* the session sends the submission request at most once, whatever the
\* violations and the countdown do; stated for violations that arrive one
\* per render, the easier case.
C1_SubmitAtMostOnce == (~h.failed /\ ~h.bursty) => Posts <= 1

\* C2: when several violations of one tick each bring warningCount to
\* MAX_WARNINGS or above (so the count ends above MAX_WARNINGS), one
\* auto-submit timer is scheduled and it invokes the submit handler once.
C2_BurstEscalatesOnce ==
  nx.warningCount > MAX_WARNINGS => h.graceScheduled = 1 /\ h.graceInvoked <= 1

\* C3: when the countdown reaches zero in a render that has isAutoSubmitting
\* set and the auto-submit timer pending, the call it makes sends no request.
C3_TimerNoOpWhileEscalating ==
  [][ (TimeoutCall /\ st.isAutoSubmitting /\ graceTimers # << >>)
        => h'.posts.timer = h.posts.timer ]_vars

\* C4: when the countdown reaches zero in an Active session with no violation
\* and an unanswered MCQ question, the call it makes opens no confirmation
\* prompt and sends the request.
C4_TimeoutSkipsConfirm ==
  [][ (TimeoutCall /\ ~st.isSubmitting /\ ~st.isAutoSubmitting
         /\ nx.warningCount = 0 /\ HasUnanswered)
        => (h'.posts.timer = h.posts.timer + 1 /\ ~h'.timeoutPrompted) ]_vars

ExpectedMessage(k) ==
  IF k < MAX_WARNINGS
  THEN [kind |-> "warning", count |-> k, max |-> MAX_WARNINGS]
  ELSE [kind |-> "final", count |-> 0, max |-> 0]

C7_ReleaseBeforeClose ==
  /\ \A i \in DOMAIN hostCmds :
        hostCmds[i] = "close-quiz-window"
          => \E j \in 1..(i - 1) : hostCmds[j] = "allow-quiz-exit"
  /\ win.forceClose => win.allowExit /\ ~win.kiosk /\ ~win.fullscreen /\ win.closable
                         /\ ~win.alwaysOnTop

C7_Witness ==
  hostCmds = << "allow-quiz-exit", "close-quiz-window" >> /\ page = "closed"

\* the route passes its validation: userId and a responses array are given
WellFormed(r) == r.userId # "" /\ r.responsesIsArray

\* the route decides request i in this step, before its transaction
Decides(i) == Len(reqs') = Len(reqs) /\ reqs[i].pc = "sent" /\ reqs'[i].pc # "sent"

\* C8 as stated: every submit request for a pair with a stored attempt is
\* answered with the duplicate-attempt 400 and stores nothing.
C8_AnyDuplicateRejected ==
  [][ \A i \in DOMAIN reqs :
        (Decides(i) /\ ExistingAttempt(db, reqs[i].userId, reqs[i].quizId))
          => (reqs'[i].pc = "replied" /\ reqs'[i].reply = "400dup" /\ db' = db) ]_vars

\* C8: a submit request that gives a userId and a responses array, for a
\* pair with a stored attempt, is answered with the duplicate-attempt 400 and
\* stores nothing.
C8_DuplicateRejected ==
  [][ \A i \in DOMAIN reqs :
        (Decides(i) /\ WellFormed(reqs[i])
           /\ ExistingAttempt(db, reqs[i].userId, reqs[i].quizId))
          => (reqs'[i].pc = "replied" /\ reqs'[i].reply = "400dup" /\ db' = db) ]_vars

C8_Witness ==
  \E i \in DOMAIN reqs : reqs[i].reply = "400dup" /\ Cardinality(db.attempts) = 1

\* C9: at most one attempt is stored for a pair, and a request of a stored
\* user is answered with the generic 500 only after a database error: the
\* loser of two concurrent requests for one pair gets the duplicate-attempt 400.
C9_LoserGetsDuplicateError ==
  /\ \A a, b \in db.attempts : (a.userId = b.userId /\ a.quizId = b.quizId) => a = b
  /\ \A i \in DOMAIN reqs :
        (reqs[i].reply = "500" /\ reqs[i].userId \in StoredUsers) => reqs[i].dbError

\* C10: after a request of the session has failed and none has succeeded,
\* no violation is accepted and counted (stated for a page that has rendered
\* every update, the failure included).
C10_NoViolationsAfterFailure ==
  [][ (h.failed /\ ~nx.submissionResult.set /\ ~RenderPending)
        => h'.accepted = h.accepted ]_vars

\* C11: once isAutoSubmitting is set it stays set, in the queued state and in
\* every later render, also after a failed request; a violation accepted
\* after that shows the final notification, never a k/MAX_WARNINGS warning,
\* and once a render has isAutoSubmitting no violation is accepted at all.
C11_EscalationIsFinal ==
  [][ /\ nx.isAutoSubmitting => nx'.isAutoSubmitting
      /\ st.isAutoSubmitting => (st'.isAutoSubmitting /\ h'.accepted = h.accepted)
      /\ (nx.isAutoSubmitting /\ h'.accepted # h.accepted)
           => h'.shown[Len(h'.shown)].kind = "final" ]_vars

C11_Witness ==
  h.failed /\ h.posts.auto >= 1 /\ reqs = << >> /\ st.isAutoSubmitting
    /\ ~st.isSubmitting /\ ~RenderPending

\* a submission attempt is still to come: a request in flight, an
\* auto-submit timeout pending, or the countdown running
SubmissionPending == reqs # << >> \/ graceTimers # << >> \/ interval >= 0

\* the Submit Quiz button can be clicked
RetryAvailable == ~st.isSubmitting /\ ~OverlayShown

C13_LogAppendOnly ==
  [][ /\ Len(nx.violations) <= Len(nx'.violations)
      /\ SubSeq(nx'.violations, 1, Len(nx.violations)) = nx.violations
      /\ (nx'.violations = << >> /\ nx.violations # << >>)
           => nx'.warningCount = nx.warningCount ]_vars

\* C14: every accepted event, from the page or from the host, appends one
\* record to the log and adds one to warningCount: in a session in which
\* the log is never cleared its length is warningCount.
C14_OneRecordPerAcceptedEvent ==
  Len(nx.violations) = nx.warningCount /\ nx.warningCount = h.accepted

\* C15: while a render shows a submission in flight, and once a render shows
\* the session as submitted, no violation is counted and no warning is shown.
C15_IgnoredWhenSubmittingOrSubmitted ==
  [][ (page = "quiz" /\ ((st.isSubmitting /\ reqs # << >>) \/ st.submissionResult.set))
        => (h'.accepted = h.accepted /\ nx'.warningCount = nx.warningCount
              /\ h'.shown = h.shown) ]_vars

\* C16: once a render shows the session as submitted, no call of the submit
\* handler sends a request (stated for violations that arrive one per
\* render, the easier case).
C16_NoRequestAfterSuccess ==
  [][ (st.submissionResult.set /\ ~h.bursty) => h'.posts = h.posts ]_vars

\* the session sends a request in this step
Sends == Len(reqs') = Len(reqs) + 1 /\ reqs'[Len(reqs')].from = "session"

\* the answer holds a selected option or a text that is not empty
Answered(a) == a.optionId \notin {Null, Undefined} \/ a.textResponse \notin {Undefined, ""}

\* the request body has an entry for answer a that carries what a holds
Carries(r, a) ==
  \E k \in DOMAIN r.responses :
    /\ r.responses[k].questionId = a.questionId
    /\ a.optionId \notin {Null, Undefined} => r.responses[k].optionId = a.optionId
    /\ a.textResponse \notin {Undefined, ""} => r.responses[k].textResponse = a.textResponse

\* C17: a request the session sends carries every answered question with
\* its selected option or its text, has no entry for a question that is not
\* answered, and carries the whole violation log.
C17_PayloadIsTheAnswers ==
  [][ Sends =>
        LET r == reqs'[Len(reqs')] IN
        /\ \A i \in DOMAIN selectedAnswers :
             IF Answered(selectedAnswers[i])
             THEN Carries(r, selectedAnswers[i])
             ELSE \A k \in DOMAIN r.responses :
                    r.responses[k].questionId # selectedAnswers[i].questionId
        /\ r.violations = nx.violations ]_vars

\* C18: the status field of a request tells its trigger: a click is tagged
\* submitted, the violation threshold auto_submitted, and the countdown has
\* a tag of its own, different from both.
C18_StatusTellsTrigger ==
  \A i \in DOMAIN reqs :
    reqs[i].from = "session" =>
      /\ reqs[i].trigger = "manual" => reqs[i].status = "submitted"
      /\ reqs[i].trigger = "auto" => reqs[i].status = "auto_submitted"
      /\ reqs[i].trigger = "timer" => reqs[i].status \notin {"submitted", "auto_submitted"}


\* the entries of a responses array that count: the question is one of the
\* quiz's (and, for the score, an mcq question whose correct option is the
\* selected one), as pairs of position and points
Counted(questions, responses, scored) ==
  { <<i, q.points>> : <<i, q>> \in
      { e \in (DOMAIN responses) \X { questions[j] : j \in DOMAIN questions } :
          /\ e[2].id = responses[e[1]].questionId
          /\ scored => /\ e[2].questionType = "mcq"
                       /\ [id |-> responses[e[1]].optionId, isCorrect |-> TRUE] \in e[2].options } }

RECURSIVE SumOfPoints(_)
SumOfPoints(S) ==
  IF S = {} THEN 0
  ELSE LET e == CHOOSE x \in S : TRUE IN e[2] + SumOfPoints(S \ {e})

\* C19: for every accepted submission (a 201 reply), score is the sum of the
\* points of the submitted mcq responses whose selected option is the correct
\* one and maxScore is the sum of the points of the submitted responses'
\* questions; non-mcq responses add nothing to score and responses naming a
\* question that is not in the quiz add to neither; the stored attempt has
\* the same score. Answers {q3: correct, 2 points; q4: incorrect, 3 points}
\* yield score 2 and maxScore 5.
C19_ScoreIsSumOfCorrectMcq ==
  \A i \in DOMAIN reqs :
    reqs[i].reply = "201" =>
      LET r == reqs[i]
          questions == QuestionsOf(r.quizId) IN
      /\ r.result.score = SumOfPoints(Counted(questions, r.responses, TRUE))
      /\ r.result.maxScore = SumOfPoints(Counted(questions, r.responses, FALSE))
      /\ \E a \in db.attempts : a.id = r.result.attemptId /\ a.score = r.result.score
      /\ r.responses = OneAnswer("q3", "c") \o OneAnswer("q4", "f")
           => r.result.score = 2 /\ r.result.maxScore = 5

\* both bodies for the second quiz were accepted: the example, and the one
\* with a wrong option, a descriptive answer and a question of another quiz
C19_Witness ==
  /\ \E i \in DOMAIN reqs :
       /\ reqs[i].reply = "201" /\ Len(reqs[i].responses) = 2
       /\ reqs[i].result.score = 2 /\ reqs[i].result.maxScore = 5
  /\ \E i \in DOMAIN reqs :
       /\ reqs[i].reply = "201" /\ Len(reqs[i].responses) = 4
       /\ reqs[i].result.score = 2 /\ reqs[i].result.maxScore = 9


\* the session runs in the restricted window of the host controller
UnderHost == isLockdownMode /\ electron

\* the post-submission timeout runs in this step
ExitStep == exitTimer = 0 /\ exitTimer' = -1

\* C20: after a successful submission the session is torn down.  Once the
\* result is rendered the exit timeout is pending, set to CloseDelay seconds
\* and counted down one second at a time; when it runs under the host
\* controller the release command has been sent, the close command is sent
\* and the window is destroyed; otherwise the page goes to the dashboard and
\* no command is ever sent to the host; and every successful submission
\* leads to the quiz page being gone.
C20_TornDownAfterSuccess ==
  /\ [](~UnderHost => hostCmds = << >>)
  /\ []((page = "quiz" /\ st.submissionResult.set) => exitTimer >= 0)
  /\ [][ /\ (~st.submissionResult.set /\ st'.submissionResult.set) => exitTimer' = CloseDelay
         /\ exitTimer' # exitTimer =>
               \/ exitTimer' = CloseDelay /\ st'.submissionResult.set /\ ~st.submissionResult.set
               \/ exitTimer > 0 /\ exitTimer' = exitTimer - 1
               \/ ExitStep
         /\ ExitStep =>
               IF UnderHost
               THEN /\ hostCmds = << "allow-quiz-exit" >>
                    /\ hostCmds' = << "allow-quiz-exit", "close-quiz-window" >>
                    /\ ~win'.exists
                    /\ page' = "closed"
               ELSE page' = "dashboard" ]_vars
  /\ (nx.submissionResult.set ~> page # "quiz")

\* the restricted window was closed by the exit timeout
C20_Witness ==
  /\ UnderHost
  /\ st.submissionResult.set
  /\ page = "closed"
  /\ hostCmds = << "allow-quiz-exit", "close-quiz-window" >>


\* C21: when the reply to a request of the session is the duplicate-attempt
\* rejection, the client shows the server's message as it is (and not the
\* text of a failure that a retry could answer).
C21_DuplicateMessageVerbatim ==
  [][ \A i \in DOMAIN reqs :
        (reqs[i].from = "session" /\ reqs[i].reply = "400dup" /\ reqs' = Remove(reqs, i))
          => h'.alert = ResponseMessage("400dup") ]_vars


\* C22: in a session that is not in lockdown mode the escalation is inactive:
\* whatever blur and visibility events occur, warningCount stays 0, no
\* warning is shown, the violation log stays empty, no warning or auto-submit
\* timer is scheduled and no auto-submission is sent.
C22_InactiveOutsideLockdown ==
  ~isLockdownMode =>
    /\ nx.warningCount = 0 /\ st.warningCount = 0
    /\ ~nx.showWarning /\ h.shown = << >>
    /\ nx.violations = << >>
    /\ ~nx.isAutoSubmitting
    /\ hideTimers = << >> /\ graceTimers = << >>
    /\ h.accepted = 0 /\ h.graceScheduled = 0 /\ h.posts.auto = 0

\* the page of a session outside lockdown has lost focus MaxEvents times
C22_Witness ==
  ~isLockdownMode /\ ~h.failed /\ h.events = MaxEvents /\ page = "quiz"

\* C23: timeRemaining changes only by going down by 1 and never below 0, and
\* the step that takes it from 1 to 0 sends the submission request at once,
\* in every launch mode and whatever the warnings recorded so far (stated for
\* a session that is not submitting already).
C23_ZeroForcesSubmission ==
  [][ /\ nx'.timeRemaining # nx.timeRemaining
         => nx'.timeRemaining = nx.timeRemaining - 1 /\ nx'.timeRemaining >= 0
      /\ (nx.timeRemaining = 1 /\ nx'.timeRemaining = 0 /\ ~st.isSubmitting /\ reqs = << >>)
         => /\ h'.posts.timer = h.posts.timer + 1
            /\ Len(reqs') = 1 ]_vars

\* C24: while the session is submitting (the render has isSubmitting and the
\* request is in flight) no hide timer of an earlier warning fires and the
\* countdown neither ticks nor calls the submit handler.
C24_TimersCancelledWhileSubmitting ==
  [][ (page = "quiz" /\ st.isSubmitting /\ reqs # << >>)
        => /\ Len(hideTimers') >= Len(hideTimers)
           /\ nx'.timeRemaining = nx.timeRemaining
           /\ h'.timeoutCalls = h.timeoutCalls ]_vars

\* the kinds of the table whose key chord or window event a raw event shows
KindsShown(input) ==
  IF input.kind = "window"
  THEN CASE input.event = "blur" -> { "window_switch" }
         [] input.event = "leave-full-screen" -> { "fullscreen_exit" }
         [] input.event = "minimize" -> { "window_minimize" }
         [] input.event = "close" -> { "window_close" }
  ELSE { k \in { "alt_tab", "windows_key", "f11_key", "escape_key", "alt_f4",
                 "devtools_shortcut", "refresh_shortcut" } :
           \/ k = "alt_tab" /\ input.alt /\ input.key = "Tab"
           \/ k = "windows_key" /\ input.key \in { "Meta", "Super" }
           \/ k = "f11_key" /\ input.key = "F11"
           \/ k = "escape_key" /\ input.key = "Escape"
           \/ k = "alt_f4" /\ input.alt /\ input.key = "F4"
           \/ k = "devtools_shortcut" /\ input.control /\ input.shift /\ input.key \in { "I", "i" }
           \/ k = "refresh_shortcut" /\ input.control /\ input.key \in { "R", "r" } }

\* the severity of each kind
SeverityOf(kind) ==
  IF kind \in { "window_minimize", "devtools_shortcut", "refresh_shortcut" }
  THEN "medium" ELSE "high"

\* C25: the handler of a raw event sends at most one violation; its kind is
\* one that the event shows (a forbidden chord or a window event) and its
\* severity is the fixed severity of that kind; a key event that shows no
\* forbidden chord sends nothing, and one that shows a chord, handled while
\* the restrictions are in force, sends its violation.
C25_ClassifierFollowsTable ==
  hostInput.kind # "none" =>
    /\ Len(hostOutput.sent) <= 1
    /\ \A i \in DOMAIN hostOutput.sent :
          /\ hostOutput.sent[i].type \in KindsShown(hostInput)
          /\ hostOutput.sent[i].severity = SeverityOf(hostOutput.sent[i].type)
    /\ KindsShown(hostInput) = {} => hostOutput = NoOutput
    /\ (KindsShown(hostInput) # {} /\ win.exists /\ ~win.allowExit /\ ~win.forceClose)
          => Len(hostOutput.sent) = 1

\* Ctrl+Shift+I, typed with the upper-case key, was classified
C25_Witness ==
  /\ hostInput.kind = "key" /\ hostInput.key = "I" /\ hostInput.control /\ hostInput.shift
  /\ ~hostInput.alt
  /\ hostOutput.sent = << [type |-> "devtools_shortcut", severity |-> "medium"] >>

\* the main process handles a raw event in this step
Handled == << hostInput', hostOutput' >> # << hostInput, hostOutput >>

\* C29: a raw event handled after allow-quiz-exit was processed (allowExit is
\* set) sends no quiz-violation-detected message and makes no call that
\* prevents the event or restores focus, fullscreen or the window; handled
\* before that, a window event or a forbidden key chord sends exactly one
\* violation message.
C29_SilentAfterAllowExit ==
  [][ Handled =>
        IF win.allowExit
        THEN hostOutput' = NoOutput
        ELSE (hostInput'.kind = "window" \/ KeyViolation(hostInput') # NoViolation)
                => Len(hostOutput'.sent) = 1 ]_vars

\* a blur was handled after the release and its handler did nothing
C29_Witness ==
  /\ win.exists /\ win.allowExit
  /\ hostInput = [kind |-> "window", event |-> "blur"]
  /\ hostOutput = NoOutput

C27_CountAtMostMax ==
  nx.warningCount <= MAX_WARNINGS /\ st.warningCount <= MAX_WARNINGS

\* C28: the client sends a command to the host only after a submission has
\* succeeded (the result is set and the attempt is stored); as long as none
\* has succeeded, whatever failed or is still in flight, the quiz window is
\* as it was created: it exists with its restrictions, allowExit and
\* forceClose are unset, so close attempts are prevented and the page lives.
C28_ReleaseOnlyAfterSuccess ==
  /\ hostCmds # << >> => (st.submissionResult.set /\ db.attempts # {})
  /\ ~nx.submissionResult.set =>
        /\ hostCmds = << >>
        /\ page = "quiz"
        /\ UnderHost => win = NewQuizWindow

\* a request of the session in the host window has failed, none has
\* succeeded, and a close attempt was made and reported since the session began
C28_Witness ==
  /\ UnderHost /\ h.failed /\ ~nx.submissionResult.set /\ reqs = << >>
  /\ \E i \in DOMAIN nx.violations : nx.violations[i].type = "window_close"
  /\ win = NewQuizWindow


\* the route answers request i in this step
Answers(i) == Len(reqs') = Len(reqs) /\ reqs[i].pc # "replied" /\ reqs'[i].pc = "replied"

\* C30: a submit request that is not answered 201 (the 400 for a missing
\* userId or responses array, the 404 for an unknown quiz, the 500 for a
\* failure inside the transaction) leaves every table as it was, a 201 adds
\* one attempt, and so a well-formed request for a stored quiz and a pair
\* without a 201 so far is not rejected as a duplicate.
C30_FailureStoresNothing ==
  [][ \A i \in DOMAIN reqs :
        /\ Answers(i) =>
              IF reqs'[i].reply = "201"
              THEN Cardinality(db'.attempts) = Cardinality(db.attempts) + 1
              ELSE db' = db
        /\ (Decides(i) /\ WellFormed(reqs[i]) /\ reqs[i].quizId \in StoredQuizzes
              /\ ~ExistingAttempt(db, reqs[i].userId, reqs[i].quizId))
              => reqs'[i].reply # "400dup" ]_vars

\* a request failed inside its transaction and a later request for the same
\* pair was accepted
C30_Witness ==
  \E i, j \in DOMAIN reqs :
    /\ i < j
    /\ reqs[i].reply = "500" /\ reqs[i].dbError
    /\ reqs[j].userId = reqs[i].userId /\ reqs[j].quizId = reqs[i].quizId
    /\ reqs[j].reply = "201"
    /\ Cardinality(db.attempts) = 1

====
